---- MODULE Spec2Model ----
(***************************************************************************)
(* A model of totpsaurus (src/index.js): base32tohex, generateTOTP,        *)
(* randomBase32, generateBackupCodes and generateTOTPURL.                  *)
(*                                                                         *)
(* Strings are sequences of one-character strings, buffers are sequences   *)
(* of bytes (0..255).  TLC's integers are 32-bit, so the JavaScript        *)
(* numbers that exceed 2^31 - 1 (the clock in milliseconds, the time-step  *)
(* index, an unsigned 32-bit read) are kept as big-endian digit sequences: *)
(* four base-2^16 limbs for the clock, four bytes for a 32-bit word.       *)
(***************************************************************************)
EXTENDS Integers, Sequences, FiniteSets, TLC

VARIABLES clock, call, ret

vars == <<clock, call, ret>>

(***************************************************************************)
(* Bounds of the model.                                                    *)
(***************************************************************************)
\* longest enumerated secret handed to generateTOTP
MaxSecretLen == 2
\* longest enumerated string handed to base32tohex
MaxBase32Len == 4
\* randomBase32 and generateBackupCodes get lengths in -MaxLength .. MaxLength
MaxLength == 3
\* generateBackupCodes gets counts in -1 .. MaxCount
MaxCount == 2
\* longest enumerated issuer handed to generateTOTPURL
MaxIssuerLen == 2
\* the conformance run lets the clock go from 0 to this many seconds
MaxTestSeconds == 100

(***************************************************************************)
(* Generic helpers.                                                        *)
(***************************************************************************)
RECURSIVE SeqsUpTo(_, _)
SeqsUpTo(S, n) ==
  IF n = 0 THEN {<<>>}
  ELSE LET shorter == SeqsUpTo(S, n - 1)
       IN shorter \cup {Append(s, c) : s \in {t \in shorter : Len(t) = n - 1}, c \in S}

RECURSIVE Pow(_, _)
Pow(b, e) == IF e = 0 THEN 1 ELSE b * Pow(b, e - 1)

\* the outcome of a call: a returned value or a thrown error (a rejected
\* promise, all five functions being async), with the locals it computed
Returned(v, locals) == [status |-> "returned", value |-> v, error |-> "", locals |-> locals]
Threw(e, locals) == [status |-> "threw", value |-> <<>>, error |-> e, locals |-> locals]

(***************************************************************************)
(* JavaScript string and number primitives used by the source.             *)
(***************************************************************************)
base32chars ==
  << "A","B","C","D","E","F","G","H","I","J","K","L","M","N","O","P",
     "Q","R","S","T","U","V","W","X","Y","Z","2","3","4","5","6","7" >>

LowerCase ==
  << "a","b","c","d","e","f","g","h","i","j","k","l","m","n","o","p",
     "q","r","s","t","u","v","w","x","y","z" >>

DigitChars ==
  << "0","1","2","3","4","5","6","7","8","9","a","b","c","d","e","f" >>

\* String.prototype.indexOf for a one-character needle: 0-based, -1 if absent
indexOf(s, c) ==
  IF \E i \in 1..Len(s) : s[i] = c
  THEN (CHOOSE i \in 1..Len(s) : s[i] = c /\ \A j \in 1..(i - 1) : s[j] # c) - 1
  ELSE -1

\* String.prototype.toUpperCase on one character
toUpperCase(c) ==
  IF indexOf(LowerCase, c) >= 0 THEN base32chars[indexOf(LowerCase, c) + 1] ELSE c

\* the digits of a non-negative integer in a radix, most significant first
RECURSIVE NatToString(_, _)
NatToString(n, radix) ==
  IF n < radix THEN <<DigitChars[n + 1]>>
  ELSE Append(NatToString(n \div radix, radix), DigitChars[(n % radix) + 1])

\* a JavaScript number that may be NaN
Num(n) == [nan |-> FALSE, n |-> n]
NaN == [nan |-> TRUE, n |-> 0]

\* Number.prototype.toString(radix) / String(number)
toString(x, radix) ==
  IF x.nan THEN <<"N", "a", "N">>
  ELSE IF x.n < 0 THEN <<"-">> \o NatToString(-x.n, radix)
  ELSE NatToString(x.n, radix)

\* String.prototype.slice(start, end), either index possibly negative
slice(s, start, end) ==
  LET len == Len(s)
      from == IF start < 0 THEN (IF len + start < 0 THEN 0 ELSE len + start)
              ELSE (IF start > len THEN len ELSE start)
      to == IF end < 0 THEN (IF len + end < 0 THEN 0 ELSE len + end)
            ELSE (IF end > len THEN len ELSE end)
  IN IF from >= to THEN <<>> ELSE SubSeq(s, from + 1, to)

\* String.prototype.slice(start)
sliceFrom(s, start) == slice(s, start, Len(s))

\* the value of the longest prefix of s made of digits of the radix
RECURSIVE DigitsPrefix(_, _, _)
DigitsPrefix(s, radix, acc) ==
  IF s = <<>> THEN acc
  ELSE LET d == indexOf(DigitChars, s[1])
       IN IF d < 0 \/ d >= radix THEN acc
          ELSE DigitsPrefix(Tail(s), radix, acc * radix + d)

\* parseInt(string, radix): an optional sign, then the longest digit prefix;
\* NaN when there is no digit
parseInt(s, radix) ==
  LET neg == s # <<>> /\ s[1] = "-"
      body == IF s # <<>> /\ s[1] \in {"-", "+"} THEN Tail(s) ELSE s
      hasDigit == body # <<>> /\ indexOf(DigitChars, body[1]) >= 0
                   /\ indexOf(DigitChars, body[1]) < radix
  IN IF ~hasDigit THEN NaN
     ELSE Num(IF neg THEN -DigitsPrefix(body, radix, 0) ELSE DigitsPrefix(body, radix, 0))

\* String.prototype.padStart(targetLength, padChar)
RECURSIVE padStart(_, _, _)
padStart(s, n, c) == IF Len(s) >= n THEN s ELSE padStart(<<c>> \o s, n, c)

\* the % operator: the result takes the sign of the dividend
JsRem(a, b) == IF a >= 0 THEN a % b ELSE -((-a) % b)

(***************************************************************************)
(* base32tohex (src/index.js 3-44).                                        *)
(***************************************************************************)
\* lines 31-34: five characters per input character
RECURSIVE Base32Bits(_)
Base32Bits(base32) ==
  IF base32 = <<>> THEN <<>>
  ELSE LET val == indexOf(base32chars, toUpperCase(base32[1]))
       IN sliceFrom(<<"0","0","0","0","0">> \o toString(Num(val), 2), -5)
          \o Base32Bits(Tail(base32))

\* HexOfBits with the loop run while i < bits.length: a last, partial chunk
\* yields a digit too
RECURSIVE HexOfBits_partialChunk(_, _)
HexOfBits_partialChunk(bits, i) ==
  IF i < Len(bits)
  THEN toString(parseInt(slice(bits, i, i + 4), 2), 16) \o HexOfBits_partialChunk(bits, i + 4)
  ELSE <<>>

\* lines 37-40: one parseInt(...).toString(16) per chunk of four, while i < bits.length - 3
RECURSIVE HexOfBits(_, _)
HexOfBits(bits, i) ==
  IF i < Len(bits) - 3
  THEN toString(parseInt(slice(bits, i, i + 4), 2), 16) \o HexOfBits(bits, i + 4)
  ELSE <<>>

base32tohex(base32) == HexOfBits(Base32Bits(base32), 0)

(***************************************************************************)
(* Buffer.from(string, "hex"): one byte per pair of hex digits, stopping   *)
(* at the first pair that is not two hex digits; an odd last digit is      *)
(* dropped.                                                                *)
(***************************************************************************)
\* the value of a hex digit of either case, -1 for any other character
HexVal(c) ==
  IF indexOf(DigitChars, c) >= 0 THEN indexOf(DigitChars, c)
  ELSE IF indexOf(base32chars, c) >= 0 /\ indexOf(base32chars, c) < 6
       THEN 10 + indexOf(base32chars, c)
  ELSE -1

RECURSIVE BufferFromHex(_)
BufferFromHex(hex) ==
  IF Len(hex) < 2 THEN <<>>
  ELSE IF HexVal(hex[1]) < 0 \/ HexVal(hex[2]) < 0 THEN <<>>
  ELSE <<HexVal(hex[1]) * 16 + HexVal(hex[2])>> \o BufferFromHex(SubSeq(hex, 3, Len(hex)))

(***************************************************************************)
(* Numbers beyond 2^31: four base-2^16 limbs, most significant first.      *)
(***************************************************************************)
Limb == 256 * 256

\* floor(x / d) for a small positive d, by schoolbook short division
RECURSIVE DivLimbsFrom(_, _, _)
DivLimbsFrom(x, d, carry) ==
  IF x = <<>> THEN <<>>
  ELSE LET cur == carry * Limb + x[1]
       IN <<cur \div d>> \o DivLimbsFrom(Tail(x), d, cur % d)

DivLimbs(x, d) == DivLimbsFrom(x, d, 0)

\* lexicographic order on equally long limb sequences = numeric order
RECURSIVE LimbLess(_, _)
LimbLess(x, y) ==
  IF x = <<>> THEN FALSE
  ELSE x[1] < y[1] \/ (x[1] = y[1] /\ LimbLess(Tail(x), Tail(y)))

\* x + n for a small n >= 0 (the sum is assumed to stay below 2^64)
RECURSIVE AddLimbs(_, _)
AddLimbs(x, n) ==
  IF x = <<>> THEN <<>>
  ELSE LET low == x[Len(x)] + n
       IN Append(AddLimbs(SubSeq(x, 1, Len(x) - 1), low \div Limb), low % Limb)

\* the 8-byte big-endian encoding of a number below 2^64
RECURSIVE BytesOfLimbs(_)
BytesOfLimbs(x) ==
  IF x = <<>> THEN <<>>
  ELSE <<x[1] \div 256, x[1] % 256>> \o BytesOfLimbs(Tail(x))

(***************************************************************************)
(* 32-bit words, as four bytes, most significant first.                    *)
(***************************************************************************)
\* bitwise AND of two non-negative integers
RECURSIVE BitAnd(_, _)
BitAnd(a, b) ==
  IF a = 0 \/ b = 0 THEN 0
  ELSE (a % 2) * (b % 2) + 2 * BitAnd(a \div 2, b \div 2)

\* ToInt32 of a 32-bit word: the signed value of its bit pattern
ToInt32(w) ==
  (IF w[1] >= 128 THEN w[1] - 256 ELSE w[1]) * 16777216 + w[2] * 65536 + w[3] * 256 + w[4]

\* the & operator on a 32-bit word and a 32-bit mask: a signed 32-bit result
And32(w, mask) == ToInt32([i \in 1..4 |-> BitAnd(w[i], mask[i])])

(***************************************************************************)
(* crypto.createHmac(algorithm, key).update(mssg).digest(): the digest     *)
(* lengths of the algorithm names the model passes; any other name makes   *)
(* createHmac throw.                                                       *)
(***************************************************************************)
DigestLength ==
  [a \in {"md5", "sha1", "sha256", "sha512"} |->
     CASE a = "md5" -> 16 [] a = "sha1" -> 20 [] a = "sha256" -> 32 [] a = "sha512" -> 64]

(***************************************************************************)
(* generateTOTP (src/index.js 46-90), given the clock reading in           *)
(* milliseconds and the digest that hmac.digest() returns.                 *)
(***************************************************************************)
\* the mask 0xffffffff, which keeps the sign bit
TruncMask_keepSign == <<255, 255, 255, 255>>

\* line 86: the mask 0x7fffffff
TruncMask == <<127, 255, 255, 255>>

\* totpMessage with the counter written at offset 0 instead of 4
totpMessage_atOffset0(timeInterval) ==
  SubSeq(BytesOfLimbs(timeInterval), 5, 8) \o <<0, 0, 0, 0>>

\* lines 73-74: Buffer.alloc(8), then writeUInt32BE(timeInterval, 4)
totpMessage(timeInterval) ==
  <<0, 0, 0, 0>> \o SubSeq(BytesOfLimbs(timeInterval), 5, 8)

\* writeUInt32BE accepts 0 .. 2^32 - 1 and throws a RangeError otherwise
FitsUInt32(x) == x[1] = 0 /\ x[2] = 0

\* lines 85-87, from the digest on
totpOfDigest(hmacDigest, locals) ==
  LET offset == BitAnd(hmacDigest[Len(hmacDigest)], 15)
  IN IF offset + 4 > Len(hmacDigest)
     THEN Threw("RangeError: readUInt32BE", [locals EXCEPT !.offset = offset])
     ELSE LET word == SubSeq(hmacDigest, offset + 1, offset + 4)
              truncatedHash == And32(word, TruncMask)
              totp == padStart(toString(Num(JsRem(truncatedHash, 1000000)), 10), 6, "0")
          IN Returned(totp, [locals EXCEPT !.offset = offset,
                                           !.truncatedHash = truncatedHash])

generateTOTPAt(secret, algorithm, now, hmacDigest) ==
  LET currentTimeInSeconds == DivLimbs(now, 1000)
      timeInterval == DivLimbs(currentTimeInSeconds, 30)
      noLocals == [currentTimeInSeconds |-> currentTimeInSeconds,
                   timeInterval |-> timeInterval, mssg |-> <<>>, hex |-> <<>>,
                   key |-> <<>>, hmacDigest |-> <<>>, offset |-> -1,
                   truncatedHash |-> -1, reached |-> "writeUInt32BE"]
  IN IF ~FitsUInt32(timeInterval)
     THEN Threw("RangeError: writeUInt32BE", noLocals)
     ELSE LET mssg == totpMessage(timeInterval)
              hex == base32tohex(secret)
              key == BufferFromHex(hex)
              keyed == [noLocals EXCEPT !.mssg = mssg, !.hex = hex, !.key = key,
                                        !.reached = "createHmac"]
          IN IF algorithm \notin DOMAIN DigestLength
             THEN Threw("Error: Invalid digest", keyed)
             ELSE totpOfDigest(hmacDigest,
                               [keyed EXCEPT !.hmacDigest = hmacDigest,
                                             !.reached = "digest"])

(***************************************************************************)
(* crypto.createHmac("sha1", key).update(mssg).digest(), computed: HMAC    *)
(* (RFC 2104) over SHA-1 (FIPS 180-4).  A 32-bit word is a pair <<high,    *)
(* low>> of 16-bit halves.                                                 *)
(***************************************************************************)
Xor16(a, b) == a + b - 2 * BitAnd(a, b)

WXor(x, y) == <<Xor16(x[1], y[1]), Xor16(x[2], y[2])>>
WAnd(x, y) == <<BitAnd(x[1], y[1]), BitAnd(x[2], y[2])>>
WNot(x) == <<65535 - x[1], 65535 - x[2]>>

\* the sum of a sequence of words modulo 2^32
WSum(ws) ==
  LET RECURSIVE Lo(_)
      Lo(i) == IF i = 0 THEN 0 ELSE ws[i][2] + Lo(i - 1)
      RECURSIVE Hi(_)
      Hi(i) == IF i = 0 THEN 0 ELSE ws[i][1] + Hi(i - 1)
      lo == Lo(Len(ws))
  IN <<(Hi(Len(ws)) + (lo \div Limb)) % Limb, lo % Limb>>

\* rotate left by n, 0 < n < 32
Rotl(x, n) ==
  LET y == IF n >= 16 THEN <<x[2], x[1]>> ELSE x
      m == n % 16
      up == Pow(2, m)
      down == Pow(2, 16 - m)
  IN IF m = 0 THEN y
     ELSE <<((y[1] * up) % Limb) + (y[2] \div down), ((y[2] * up) % Limb) + (y[1] \div down)>>

Sha1H0 == << <<26437, 8961>>, <<61389, 43913>>, <<39098, 56574>>, <<4146, 21622>>,
             <<50130, 57840>> >>

Sha1K(t) ==
  IF t < 20 THEN <<23170, 31129>>
  ELSE IF t < 40 THEN <<28377, 60321>>
  ELSE IF t < 60 THEN <<36635, 48348>>
  ELSE <<51810, 49622>>

Sha1F(t, b, c, d) ==
  IF t < 20 THEN WXor(WAnd(b, c), WAnd(WNot(b), d))
  ELSE IF t >= 40 /\ t < 60 THEN WXor(WXor(WAnd(b, c), WAnd(b, d)), WAnd(c, d))
  ELSE WXor(WXor(b, c), d)

\* the message schedule: 16 words of the block, extended to 80
RECURSIVE Sha1Schedule(_)
Sha1Schedule(w) ==
  IF Len(w) = 80 THEN w
  ELSE LET t == Len(w) + 1
       IN Sha1Schedule(Append(w,
            Rotl(WXor(WXor(w[t - 3], w[t - 8]), WXor(w[t - 14], w[t - 16])), 1)))

\* round t on the working variables v = <<a, b, c, d, e>>
Sha1Round(t, v, w) ==
  <<WSum(<<Rotl(v[1], 5), Sha1F(t, v[2], v[3], v[4]), v[5], Sha1K(t), w[t + 1]>>),
    v[1], Rotl(v[2], 30), v[3], v[4]>>

\* the working variables after each of the rounds 0 .. 79, the first entry
\* being their initial value
RECURSIVE Sha1Rounds(_, _)
Sha1Rounds(vs, w) ==
  IF Len(vs) = 81 THEN vs
  ELSE Sha1Rounds(Append(vs, Sha1Round(Len(vs) - 1, vs[Len(vs)], w)), w)

\* one 64-byte block
Sha1Block(h, block) ==
  LET w == Sha1Schedule([i \in 1..16 |->
                           <<block[4 * i - 3] * 256 + block[4 * i - 2],
                             block[4 * i - 1] * 256 + block[4 * i]>>])
      v == Sha1Rounds(<<h>>, w)[81]
  IN [i \in 1..5 |-> WSum(<<h[i], v[i]>>)]

RECURSIVE Sha1Blocks(_, _)
Sha1Blocks(h, bytes) ==
  IF bytes = <<>> THEN h
  ELSE Sha1Blocks(Sha1Block(h, SubSeq(bytes, 1, 64)), SubSeq(bytes, 65, Len(bytes)))

\* the message, 0x80, zeros up to 56 mod 64, the bit length in 8 bytes
Sha1Pad(bytes) ==
  LET n == Len(bytes)
      zeros == (119 - (n % 64)) % 64
      bits == n * 8
  IN bytes \o <<128>> \o [i \in 1..zeros |-> 0] \o <<0, 0, 0, 0>>
     \o <<bits \div 16777216, (bits \div 65536) % 256, (bits \div 256) % 256, bits % 256>>

Sha1(bytes) ==
  LET h == Sha1Blocks(Sha1H0, Sha1Pad(bytes))
  IN [i \in 1..20 |->
        LET x == h[(i - 1) \div 4 + 1]
            half == x[((i - 1) % 4) \div 2 + 1]
        IN IF i % 2 = 1 THEN half \div 256 ELSE half % 256]

HmacSha1(key, mssg) ==
  LET k == IF Len(key) > 64 THEN Sha1(key) ELSE key
      k0 == k \o [i \in 1..(64 - Len(k)) |-> 0]
      ipad == [i \in 1..64 |-> Xor16(k0[i], 54)]
      opad == [i \in 1..64 |-> Xor16(k0[i], 92)]
  IN Sha1(opad \o Sha1(ipad \o mssg))

(***************************************************************************)
(* randomBase32 (src/index.js 92-127).  rnd[i + 1] is the value of         *)
(* Math.floor(Math.random() * 32) in iteration i of the loop.              *)
(***************************************************************************)
\* randomBase32 without line 115: the length is used as given
randomBase32_asGiven(length, rnd) ==
  LET RECURSIVE Push(_, _)
      Push(secret, i) ==
        IF i < length THEN Push(Append(secret, base32chars[rnd[i + 1] + 1]), i + 1)
        ELSE secret
  IN Returned(Push(<<>>, 0), [length |-> length])

randomBase32(length, rnd) ==
  LET evenLength == IF JsRem(length, 2) = 0 THEN length ELSE length + 1
      RECURSIVE Push(_, _)
      Push(secret, i) ==
        IF i < evenLength THEN Push(Append(secret, base32chars[rnd[i + 1] + 1]), i + 1)
        ELSE secret
  IN Returned(Push(<<>>, 0), [length |-> evenLength])

(***************************************************************************)
(* generateBackupCodes (src/index.js 129-158).  bytes is what              *)
(* crypto.randomBytes(length) returns when it returns; it throws a         *)
(* RangeError for a negative size.  The file defines no base32Encode and   *)
(* imports none, so evaluating the name throws a ReferenceError.           *)
(***************************************************************************)
base32Encode(randomBytes) ==
  Threw("ReferenceError: base32Encode is not defined", [randomBytes |-> randomBytes])

generateBackupCodes(count, length, bytes) ==
  LET RECURSIVE Loop(_, _)
      Loop(backupCodes, i) ==
        IF i < count
        THEN IF length < 0
             THEN Threw("RangeError: randomBytes", [backupCodes |-> backupCodes])
             ELSE LET backupCode == base32Encode(bytes)
                  IN IF backupCode.status = "threw" THEN backupCode
                     ELSE Loop(Append(backupCodes, backupCode.value), i + 1)
        ELSE Returned(backupCodes, [backupCodes |-> backupCodes])
  IN Loop(<<>>, 0)

(***************************************************************************)
(* encodeURIComponent.  A character of a string is one UTF-16 code unit;   *)
(* the code units outside ASCII that the model uses are written "U+XXXX".  *)
(***************************************************************************)
UpperHexChars ==
  << "0","1","2","3","4","5","6","7","8","9","A","B","C","D","E","F" >>

CharCode(c) ==
  IF indexOf(LowerCase, c) >= 0 THEN 97 + indexOf(LowerCase, c)
  ELSE IF indexOf(base32chars, c) >= 0 /\ indexOf(base32chars, c) < 26
       THEN 65 + indexOf(base32chars, c)
  ELSE IF indexOf(DigitChars, c) >= 0 THEN 48 + indexOf(DigitChars, c)
  ELSE CASE c = " " -> 32
         [] c = "%" -> 37
         [] c = "&" -> 38
         [] c = "/" -> 47
         [] c = ":" -> 58
         [] c = "=" -> 61
         [] c = "?" -> 63
         [] c = "U+00E9" -> 233
         [] c = "U+D83D" -> 55357
         [] c = "U+DE00" -> 56832

\* the characters encodeURIComponent leaves alone
UriUnreserved(c) ==
  \/ indexOf(LowerCase, c) >= 0
  \/ indexOf(base32chars, c) >= 0
  \/ (indexOf(DigitChars, c) >= 0 /\ indexOf(DigitChars, c) < 10)
  \/ c \in {"-", "_", ".", "!", "~", "*", "'", "(", ")"}

\* the UTF-8 encoding of a code point
Utf8(cp) ==
  IF cp < 128 THEN <<cp>>
  ELSE IF cp < 2048 THEN <<192 + (cp \div 64), 128 + (cp % 64)>>
  ELSE IF cp < 65536
       THEN <<224 + (cp \div 4096), 128 + ((cp \div 64) % 64), 128 + (cp % 64)>>
  ELSE <<240 + (cp \div 262144), 128 + ((cp \div 4096) % 64), 128 + ((cp \div 64) % 64),
         128 + (cp % 64)>>

RECURSIVE PercentEscape(_)
PercentEscape(bytes) ==
  IF bytes = <<>> THEN <<>>
  ELSE <<"%", UpperHexChars[(bytes[1] \div 16) + 1], UpperHexChars[(bytes[1] % 16) + 1]>>
       \o PercentEscape(Tail(bytes))

IsHighSurrogate(code) == code >= 55296 /\ code <= 56319
IsLowSurrogate(code) == code >= 56320 /\ code <= 57343

\* encodeURIComponent that escapes nothing
encodeURIComponent_asIs(s) == [threw |-> FALSE, text |-> s]

\* [threw |-> FALSE, text |-> the encoding], or threw |-> TRUE for the
\* URIError an unpaired surrogate raises
RECURSIVE encodeURIComponent(_)
encodeURIComponent(s) ==
  IF s = <<>> THEN [threw |-> FALSE, text |-> <<>>]
  ELSE LET code == CharCode(s[1])
           pair == IsHighSurrogate(code) /\ Len(s) >= 2 /\ IsLowSurrogate(CharCode(s[2]))
           rest == encodeURIComponent(IF pair THEN Tail(Tail(s)) ELSE Tail(s))
           head == IF UriUnreserved(s[1]) THEN <<s[1]>>
                   ELSE IF pair
                        THEN PercentEscape(Utf8((code - 55296) * 1024
                                                + (CharCode(s[2]) - 56320) + 65536))
                   ELSE PercentEscape(Utf8(code))
       IN IF ~UriUnreserved(s[1]) /\ ~pair /\ (IsHighSurrogate(code) \/ IsLowSurrogate(code))
          THEN [threw |-> TRUE, text |-> <<>>]
          ELSE IF rest.threw THEN rest
          ELSE [threw |-> FALSE, text |-> head \o rest.text]

(***************************************************************************)
(* generateTOTPURL (src/index.js 160-218).                                 *)
(***************************************************************************)
generateTOTPURL(secret, id, issuer, algorithm, digits, period, counter, initialTime, window) ==
  LET encodedIssuer == encodeURIComponent(issuer)
      encodedUsername == encodeURIComponent(id)
      encodedSecret == encodeURIComponent(secret)
      encodedAlgorithm == encodeURIComponent(algorithm)
      none == [encodedIssuer |-> <<>>]
  IN IF encodedIssuer.threw \/ encodedUsername.threw \/ encodedSecret.threw
        \/ encodedAlgorithm.threw
     THEN Threw("URIError: URI malformed", none)
     ELSE Returned(
            <<"o","t","p","a","u","t","h",":","/","/","t","o","t","p","/">> \o encodedIssuer.text \o <<":">> \o encodedUsername.text
            \o <<"?","s","e","c","r","e","t","=">> \o encodedSecret.text
            \o <<"&","i","s","s","u","e","r","=">> \o encodedIssuer.text
            \o <<"&","a","l","g","o","r","i","t","h","m","=">> \o encodedAlgorithm.text
            \o <<"&","d","i","g","i","t","s","=">> \o toString(Num(digits), 10)
            \o <<"&","p","e","r","i","o","d","=">> \o toString(Num(period), 10)
            \o <<"&","c","o","u","n","t","e","r","=">> \o toString(Num(counter), 10)
            \o <<"&","i","n","i","t","i","a","l","_","t","i","m","e","=">> \o toString(Num(initialTime), 10)
            \o <<"&","w","i","n","d","o","w","=">> \o toString(Num(window), 10),
            [encodedIssuer |-> encodedIssuer.text])

(***************************************************************************)
(* The inputs the model enumerates.                                        *)
(***************************************************************************)
\* clock readings in milliseconds: the epoch, second 59, a day of 2026,
\* the last millisecond of time step 2^32 - 1, the first of time step 2^32,
\* and the largest value of a Date (8.64e15)
ClockSamples ==
  { <<0, 0, 0, 0>>, <<0, 0, 0, 59000>>, <<0, 417, 37991, 59392>>,
    <<0, 29999, 65535, 65535>>, <<0, 30000, 0, 0>>, <<30, 45576, 49884, 0>> }

\* "1" is outside the base32 alphabet
SecretChars == {"A", "b", "7", "1"}

RfcSecret ==
  <<"G","E","Z","D","G","N","B","V","G","Y","3","T","Q","O","J","Q",
    "G","E","Z","D","G","N","B","V","G","Y","3","T","Q","O","J","Q">>

SecretSamples ==
  SeqsUpTo(SecretChars, MaxSecretLen)
  \cup {RfcSecret, <<"j","b","s","w","y","3","d","p","e","h","p","k","3","p","x","p">>}

AlgorithmSamples == {"sha1", "sha256", "sha512", "md5", "sha0"}

\* a digest of the algorithm's length: its last byte, the four bytes at the
\* offset the last byte selects, a filler elsewhere
MkDigest(len, last, word) ==
  [i \in 1..len |->
     IF i = len THEN last
     ELSE IF i > last % 16 /\ i <= (last % 16) + 4 THEN word[i - (last % 16)]
     ELSE (i * 7) % 256]

WordSamples ==
  { <<0, 0, 0, 0>>, <<255, 255, 255, 255>>, <<128, 0, 0, 42>>, <<0, 15, 66, 64>>,
    <<80, 239, 127, 25>> }

DigestSamples(algorithm) ==
  IF algorithm \in DOMAIN DigestLength
  THEN {MkDigest(DigestLength[algorithm], last, word) :
          last \in {0, 90, 255}, word \in WordSamples}
  ELSE {<<>>}

RandomDraws == {0, 26, 31}

UrlChars == {"A", "z", "&", " ", ":", "%", "U+00E9", "U+D83D", "U+DE00"}

NoCall == [op |-> "none"]
NoRet == [status |-> "none", value |-> <<>>, error |-> "", locals |-> <<>>]

(***************************************************************************)
(* The state machine: the wall clock, and the call a caller awaits with    *)
(* its outcome.  The functions share no state (each is a pure function of  *)
(* its arguments, the clock and the random draws), so one caller awaiting  *)
(* one call at a time shows every outcome.                                 *)
(***************************************************************************)
Init ==
  /\ clock = <<0, 0, 0, 0>>
  /\ call = NoCall
  /\ ret = NoRet

\* time passes
Tick ==
  /\ \E later \in ClockSamples : LimbLess(clock, later) /\ clock' = later
  /\ UNCHANGED <<call, ret>>

Base32tohex ==
  /\ call = NoCall
  /\ \E base32 \in SeqsUpTo(SecretChars, MaxBase32Len) :
       /\ call' = [op |-> "base32tohex", base32 |-> base32]
       /\ ret' = Returned(base32tohex(base32), <<>>)
  /\ UNCHANGED clock

GenerateTOTP ==
  /\ call = NoCall
  /\ \E secret \in SecretSamples, algorithm \in AlgorithmSamples :
       \E hmacDigest \in DigestSamples(algorithm) :
         /\ call' = [op |-> "generateTOTP", secret |-> secret, algorithm |-> algorithm]
         /\ ret' = generateTOTPAt(secret, algorithm, clock, hmacDigest)
  /\ UNCHANGED clock

RandomBase32 ==
  /\ call = NoCall
  /\ \E length \in (0 - MaxLength)..MaxLength :
       \E rnd \in [1..(MaxLength + 1) -> RandomDraws] :
         /\ call' = [op |-> "randomBase32", length |-> length]
         /\ ret' = randomBase32(length, rnd)
  /\ UNCHANGED clock

GenerateBackupCodes ==
  /\ call = NoCall
  /\ \E count \in (0 - 1)..MaxCount, length \in (0 - 1)..MaxLength, b \in {0, 255} :
       /\ call' = [op |-> "generateBackupCodes", count |-> count, length |-> length]
       /\ ret' = generateBackupCodes(count, length, [i \in 1..length |-> b])
  /\ UNCHANGED clock

GenerateTOTPURL ==
  /\ call = NoCall
  /\ \E issuer \in SeqsUpTo(UrlChars, MaxIssuerLen),
        id \in {<<"A", "z">>, <<"A", ":", "&">>},
        algorithm \in {<<"S","H","A","1">>, <<"S","H","A","2","5","6">>},
        digits \in {6, 8} :
       /\ call' = [op |-> "generateTOTPURL", secret |-> RfcSecret, id |-> id,
                   issuer |-> issuer, algorithm |-> algorithm, digits |-> digits,
                   period |-> 30, counter |-> 0, initialTime |-> 0, window |-> 1]
       /\ ret' = generateTOTPURL(RfcSecret, id, issuer, algorithm, digits, 30, 0, 0, 1)
  /\ UNCHANGED clock

\* the awaiting caller takes the outcome
Resume ==
  /\ call # NoCall
  /\ call' = NoCall
  /\ ret' = NoRet
  /\ UNCHANGED clock

Next ==
  \/ Tick
  \/ Resume
  \/ Base32tohex
  \/ GenerateTOTP
  \/ RandomBase32
  \/ GenerateBackupCodes
  \/ GenerateTOTPURL

Spec == Init /\ [][Next]_vars

(***************************************************************************)
(* The conformance run: the clock starts at the epoch and advances second  *)
(* by second; generateTOTP is called with the RFC 6238 test secret and     *)
(* SHA-1, and the digest is the one HMAC-SHA-1 computes.                   *)
(***************************************************************************)
InitTest ==
  /\ clock = <<0, 0, 0, 0>>
  /\ call = NoCall
  /\ ret = NoRet

TickSecond ==
  /\ LimbLess(clock, AddLimbs(<<0, 0, 0, 0>>, MaxTestSeconds * 1000))
  /\ clock' = AddLimbs(clock, 1000)
  /\ UNCHANGED <<call, ret>>

GenerateTOTPSha1 ==
  /\ call = NoCall
  /\ call' = [op |-> "generateTOTP", secret |-> RfcSecret, algorithm |-> "sha1"]
  /\ ret' = generateTOTPAt(RfcSecret, "sha1", clock,
                           HmacSha1(BufferFromHex(base32tohex(RfcSecret)),
                                    totpMessage(DivLimbs(DivLimbs(clock, 1000), 30))))
  /\ UNCHANGED clock

NextTest == TickSecond \/ GenerateTOTPSha1 \/ Resume

SpecTest == InitTest /\ [][NextTest]_vars

(***************************************************************************)
(* Vocabulary of the properties.                                           *)
(***************************************************************************)
\* the alphabet index of a base32 character of either case
Base32Value(c) ==
  CHOOSE v \in 0..31 : base32chars[v + 1] = c \/ (v < 26 /\ LowerCase[v + 1] = c)

IsBase32Char(c) ==
  \E v \in 0..31 : base32chars[v + 1] = c \/ (v < 26 /\ LowerCase[v + 1] = c)

IsBase32(s) == \A i \in 1..Len(s) : IsBase32Char(s[i])

IsUpperBase32(s) == \A i \in 1..Len(s) : \E v \in 1..32 : base32chars[v] = s[i]

DecimalDigits == {"0", "1", "2", "3", "4", "5", "6", "7", "8", "9"}

RECURSIVE DecimalValue(_)
DecimalValue(s) ==
  IF s = <<>> THEN 0
  ELSE DecimalValue(SubSeq(s, 1, Len(s) - 1)) * 10
       + (CHOOSE d \in 0..9 : DigitChars[d + 1] = s[Len(s)])

\* bit k (from 0, most significant first) of the concatenated 5-bit indexes
Base32Bit(s, k) == (Base32Value(s[(k \div 5) + 1]) \div Pow(2, 4 - (k % 5))) % 2

\* hex digit j (from 0) of those bits
Base32Nibble(s, j) ==
  8 * Base32Bit(s, 4 * j) + 4 * Base32Bit(s, 4 * j + 1)
  + 2 * Base32Bit(s, 4 * j + 2) + Base32Bit(s, 4 * j + 3)

\* hex is the first 4 * floor(5n/4) bits of s, one lower-case hex digit per four
HexSpellsBase32(hex, s) ==
  /\ Len(hex) = (5 * Len(s)) \div 4
  /\ \A j \in 1..Len(hex) :
       /\ \E d \in 1..16 : DigitChars[d] = hex[j]
       /\ HexVal(hex[j]) = Base32Nibble(s, j - 1)

SupportedAlgorithms == {"sha1", "sha256", "sha512"}

(***************************************************************************)
(* C1.  For every secret over the base32 alphabet, every supported         *)
(* algorithm and every clock value, generateTOTP returns a string of       *)
(* exactly six decimal digits, equal to the truncated value modulo 10^6    *)
(* left-padded with zeros.                                                 *)
(***************************************************************************)
SixDigitCode(r) ==
  /\ r.status = "returned"
  /\ Len(r.value) = 6
  /\ \A i \in 1..Len(r.value) : r.value[i] \in DecimalDigits
  /\ DecimalValue(r.value) = r.locals.truncatedHash % 1000000

\* C1 as claimed, for every clock value
C1_AlwaysSixDigits ==
  (call.op = "generateTOTP" /\ IsBase32(call.secret)
     /\ call.algorithm \in SupportedAlgorithms)
  => SixDigitCode(ret)

\* C1 restricted to the clocks whose time step is below 2^32, where the
\* counter fits the 32 bits the code writes: there the six digits hold
C1_SixDigitsBelow2To32 ==
  (call.op = "generateTOTP" /\ IsBase32(call.secret)
     /\ call.algorithm \in SupportedAlgorithms /\ FitsUInt32(ret.locals.timeInterval))
  => SixDigitCode(ret)

(***************************************************************************)
(* C2.  RFC 6238 conformance: with the secret                              *)
(* GEZDGNBVGY3TQOJQGEZDGNBVGY3TQOJQ, SHA-1 and the clock in time step 1    *)
(* (Unix time 59 included), generateTOTP returns "287082".                 *)
(***************************************************************************)
\* C2: the code for time step 1 is 287082
C2_RfcVector ==
  (call.op = "generateTOTP" /\ call.secret = RfcSecret /\ call.algorithm = "sha1"
     /\ ret.locals.timeInterval = <<0, 0, 0, 1>>)
  => (ret.status = "returned" /\ ret.value = <<"2", "8", "7", "0", "8", "2">>)

\* C2: the call made at Unix time 59
C2_Witness ==
  /\ call.op = "generateTOTP"
  /\ call.secret = RfcSecret
  /\ call.algorithm = "sha1"
  /\ ret.locals.currentTimeInSeconds = <<0, 0, 0, 59>>
  /\ ret.locals.mssg = <<0, 0, 0, 0, 0, 0, 0, 1>>
  /\ ret.locals.offset = 11
  /\ ret.value = <<"2", "8", "7", "0", "8", "2">>

C4_BackupCodes ==
  (call.op = "generateBackupCodes" /\ call.count >= 1 /\ call.length >= 1)
  => /\ ret.status = "returned"
     /\ Len(ret.value) = call.count
     /\ \A i \in 1..Len(ret.value) : ret.value[i] # <<>> /\ IsUpperBase32(ret.value[i])

(***************************************************************************)
(* C5.  Decoding a string with a character outside the alphabet fails      *)
(* with InvalidSecretCharacter, and generateTOTP on such a secret returns  *)
(* no code.                                                                *)
(***************************************************************************)
\* C5 as claimed
C5_InvalidCharacterRejected ==
  /\ (call.op = "base32tohex" /\ ~IsBase32(call.base32))
     => (ret.status = "threw" /\ ret.error = "InvalidSecretCharacter")
  /\ (call.op = "generateTOTP" /\ ~IsBase32(call.secret))
     => ret.status = "threw"

(***************************************************************************)
(* C6.  For every string s of length n over the base32 alphabet, in either *)
(* case, base32tohex(s) is floor(5n/4) hex digits spelling the leading     *)
(* bits of the 5-bit indexes, and the key generateTOTP builds from it has  *)
(* floor(5n/8) bytes.                                                      *)
(***************************************************************************)
\* C6: the hex string and the key, against the arithmetic of the indexes
C6_HexOfBase32 ==
  /\ (call.op = "base32tohex" /\ IsBase32(call.base32))
     => (ret.status = "returned" /\ HexSpellsBase32(ret.value, call.base32))
  /\ (call.op = "generateTOTP" /\ IsBase32(call.secret)
        /\ ret.locals.reached # "writeUInt32BE")
     => /\ HexSpellsBase32(ret.locals.hex, call.secret)
        /\ Len(ret.locals.key) = (5 * Len(call.secret)) \div 8
        /\ \A i \in 1..Len(ret.locals.key) :
             ret.locals.key[i] = 16 * Base32Nibble(call.secret, 2 * i - 2)
                                 + Base32Nibble(call.secret, 2 * i - 1)

\* C6: "b7": ten bits 00001 11111, two hex digits, one key byte, two bits dropped
C6_Witness ==
  /\ call.op = "generateTOTP"
  /\ call.secret = <<"b", "7">>
  /\ ret.locals.reached # "writeUInt32BE"
  /\ ret.locals.hex = <<"0", "f">>
  /\ ret.locals.key = <<15>>

(***************************************************************************)
(* C7.  As claimed: for every issuer string, generateTOTPURL returns a URL *)
(* in which both occurrences of the issuer are percent-encoded, no literal *)
(* "&" or space is in the issuer field, and the parameters are, in order,  *)
(* secret, issuer, algorithm, digits, period, counter, initial_time,       *)
(* window.                                                                 *)
(***************************************************************************)
\* the first index of c in s, 0 if absent
FirstIndex(s, c) ==
  IF \E i \in 1..Len(s) : s[i] = c
  THEN CHOOSE i \in 1..Len(s) : s[i] = c /\ \A j \in 1..(i - 1) : s[j] # c
  ELSE 0

RECURSIVE SplitOn(_, _)
SplitOn(s, c) ==
  IF FirstIndex(s, c) = 0 THEN <<s>>
  ELSE <<SubSeq(s, 1, FirstIndex(s, c) - 1)>>
       \o SplitOn(SubSeq(s, FirstIndex(s, c) + 1, Len(s)), c)

\* every low surrogate follows a high one and every high one precedes a low one
WellFormedUtf16(s) ==
  \A i \in 1..Len(s) :
    /\ IsHighSurrogate(CharCode(s[i]))
       => (i < Len(s) /\ IsLowSurrogate(CharCode(s[i + 1])))
    /\ IsLowSurrogate(CharCode(s[i]))
       => (i > 1 /\ IsHighSurrogate(CharCode(s[i - 1])))

\* the UTF-8 bytes of a well-formed string
RECURSIVE Utf8OfString(_)
Utf8OfString(s) ==
  IF s = <<>> THEN <<>>
  ELSE IF IsHighSurrogate(CharCode(s[1]))
       THEN Utf8((CharCode(s[1]) - 55296) * 1024 + (CharCode(s[2]) - 56320) + 65536)
            \o Utf8OfString(Tail(Tail(s)))
  ELSE Utf8(CharCode(s[1])) \o Utf8OfString(Tail(s))

UpperHexValue(c) == CHOOSE d \in 0..15 : UpperHexChars[d + 1] = c

\* text is made of unreserved characters and %XX escapes only
RECURSIVE IsPercentEncoded(_)
IsPercentEncoded(text) ==
  IF text = <<>> THEN TRUE
  ELSE IF text[1] = "%"
       THEN /\ Len(text) >= 3
            /\ \E d \in 1..16 : UpperHexChars[d] = text[2]
            /\ \E d \in 1..16 : UpperHexChars[d] = text[3]
            /\ IsPercentEncoded(SubSeq(text, 4, Len(text)))
  ELSE UriUnreserved(text[1]) /\ IsPercentEncoded(Tail(text))

\* the bytes a percent-encoded text stands for
RECURSIVE PercentDecode(_)
PercentDecode(text) ==
  IF text = <<>> THEN <<>>
  ELSE IF text[1] = "%"
       THEN <<16 * UpperHexValue(text[2]) + UpperHexValue(text[3])>>
            \o PercentDecode(SubSeq(text, 4, Len(text)))
  ELSE <<CharCode(text[1])>> \o PercentDecode(Tail(text))

EncodesIssuer(text, issuer) ==
  /\ IsPercentEncoded(text)
  /\ \A i \in 1..Len(text) : text[i] \notin {"&", " "}
  /\ PercentDecode(text) = Utf8OfString(issuer)

ParameterNames ==
  << <<"s","e","c","r","e","t">>, <<"i","s","s","u","e","r">>, <<"a","l","g","o","r","i","t","h","m">>, <<"d","i","g","i","t","s">>,
     <<"p","e","r","i","o","d">>, <<"c","o","u","n","t","e","r">>, <<"i","n","i","t","i","a","l","_","t","i","m","e">>, <<"w","i","n","d","o","w">> >>

UrlCarriesIssuer(url, issuer) ==
  LET scheme == <<"o","t","p","a","u","t","h",":","/","/","t","o","t","p","/">>
      path == SubSeq(url, Len(scheme) + 1, FirstIndex(url, "?") - 1)
      label == SubSeq(path, 1, FirstIndex(path, ":") - 1)
      fields == SplitOn(SubSeq(url, FirstIndex(url, "?") + 1, Len(url)), "&")
      name(f) == SubSeq(f, 1, FirstIndex(f, "=") - 1)
      value(f) == SubSeq(f, FirstIndex(f, "=") + 1, Len(f))
  IN /\ SubSeq(url, 1, Len(scheme)) = scheme
     /\ FirstIndex(url, "?") > Len(scheme)
     /\ FirstIndex(path, ":") > 0
     /\ EncodesIssuer(label, issuer)
     /\ Len(fields) = 8
     /\ \A k \in 1..8 : FirstIndex(fields[k], "=") > 0 /\ name(fields[k]) = ParameterNames[k]
     /\ EncodesIssuer(value(fields[2]), issuer)
     /\ value(fields[2]) = label

\* C7 as claimed
C7_Original ==
  call.op = "generateTOTPURL"
  => (ret.status = "returned" /\ UrlCarriesIssuer(ret.value, call.issuer))

(***************************************************************************)
(* C7, amended.  For every issuer string with no unpaired surrogate code   *)
(* unit, generateTOTPURL returns a URL in which both occurrences of the    *)
(* issuer are percent-encoded, no literal "&" or space is in the issuer    *)
(* field, and the parameters are, in order, secret, issuer, algorithm,     *)
(* digits, period, counter, initial_time, window; for an issuer with an    *)
(* unpaired surrogate it throws a URIError and returns no URL.             *)
(***************************************************************************)
\* C7 as amended
C7_IssuerEncoded ==
  call.op = "generateTOTPURL"
  => IF WellFormedUtf16(call.issuer)
     THEN ret.status = "returned" /\ UrlCarriesIssuer(ret.value, call.issuer)
     ELSE ret.status = "threw" /\ ret.error = "URIError: URI malformed"

\* C7: the issuer "& " becomes %26%20 in both places
C7_Witness ==
  /\ call.op = "generateTOTPURL"
  /\ call.issuer = <<"&", " ">>
  /\ ret.status = "returned"
  /\ ret.locals.encodedIssuer = <<"%", "2", "6", "%", "2", "0">>
  /\ UrlCarriesIssuer(ret.value, call.issuer)

(***************************************************************************)
(* C8.  A non-positive length or count is rejected with InvalidLength:     *)
(* randomBase32(length) with length <= 0 and generateBackupCodes(count,    *)
(* length) with count <= 0 or length <= 0 return no result.                *)
(***************************************************************************)
\* C8 as claimed
C8_NonPositiveRejected ==
  /\ (call.op = "randomBase32" /\ call.length <= 0)
     => (ret.status = "threw" /\ ret.error = "InvalidLength")
  /\ (call.op = "generateBackupCodes" /\ (call.count <= 0 \/ call.length <= 0))
     => (ret.status = "threw" /\ ret.error = "InvalidLength")

(***************************************************************************)
(* C9.  For every clock value whose time-step index c is in 0 .. 2^64 - 1, *)
(* generateTOTP does not fail on it and the message it hands to HMAC is    *)
(* the 8-byte big-endian encoding of c.                                    *)
(***************************************************************************)
\* C9 as claimed
C9_CounterIsEightBytes ==
  call.op = "generateTOTP"
  => /\ ret.locals.reached # "writeUInt32BE"
     /\ ret.locals.mssg = BytesOfLimbs(ret.locals.timeInterval)

\* C9 restricted to the time steps below 2^32: there the message is the
\* 8-byte big-endian encoding of the time step
C9_LowCounterIsEightBytes ==
  (call.op = "generateTOTP" /\ FitsUInt32(ret.locals.timeInterval))
  => /\ ret.locals.reached # "writeUInt32BE"
     /\ ret.locals.mssg = BytesOfLimbs(ret.locals.timeInterval)

(***************************************************************************)
(* C10.  For every digest of at least 20 bytes, the offset (low nibble of  *)
(* the last byte) satisfies offset + 4 <= digest length, the read          *)
(* succeeds, and the truncated value is the big-endian word at the offset  *)
(* with its top bit cleared: an integer in 0 .. 2^31 - 1.                  *)
(***************************************************************************)
\* C10: offset, bounds of the read and range of the truncated value
C10_TruncationInRange ==
  (call.op = "generateTOTP" /\ ret.locals.reached = "digest"
     /\ Len(ret.locals.hmacDigest) >= 20)
  => LET d == ret.locals.hmacDigest
         o == ret.locals.offset
     IN /\ o = d[Len(d)] % 16
        /\ o + 4 <= Len(d)
        /\ ret.status = "returned"
        /\ ret.locals.truncatedHash >= 0
        /\ ret.locals.truncatedHash <= 2147483647
        /\ ret.locals.truncatedHash =
             (d[o + 1] % 128) * 16777216 + d[o + 2] * 65536 + d[o + 3] * 256 + d[o + 4]

\* C10: a SHA-1 digest whose word at offset 15 is 0xffffffff
C10_Witness ==
  /\ call.op = "generateTOTP"
  /\ call.algorithm = "sha1"
  /\ ret.status = "returned"
  /\ ret.locals.offset = 15
  /\ SubSeq(ret.locals.hmacDigest, 16, 19) = <<255, 255, 255, 255>>
  /\ ret.locals.truncatedHash = 2147483647
  /\ ret.value = <<"4", "8", "3", "6", "4", "7">>

====
